---------------------------- MODULE Spec2Model ----------------------------
(***************************************************************************)
(* A model of purkinje-uv's growth-robustness core:                        *)
(*   - FractalTreeParameters (src/src/purkinje_uv/fractal_tree_parameters) *)
(*   - pca_seed_vertices, grow_with_retry                                  *)
(*     (src/scripts/validate_purkinje_uv_smoke.py)                         *)
(*                                                                         *)
(* Python values are tagged records [t, v, s].  A float is held on a       *)
(* uniform grid of hundredths (v = 100 * value): the grid step stands for  *)
(* the smallest positive double, a product is rounded to the nearest grid  *)
(* point with ties to even, as IEEE-754 does, and so a product below half  *)
(* a grid step underflows to 0.0.  An int keeps its own value.             *)
(***************************************************************************)
EXTENDS Integers, Sequences, FiniteSets, TLC

VARIABLES rc, pv, hp, sd, sh, ov, pl

vars == <<rc, pv, hp, sd, sh, ov, pl>>

---------------------------------------------------------------------------
(* Bounds of the model. *)

MaxLen == 3
MaxTries == 3
MaxFasc == 1
MaxKw == 2
MaxObjs == 2
MaxVerts == 4
MaxCoord == 1
MaxK == 4
MaxDiag == 60
MaxRows == 15

---------------------------------------------------------------------------
(* Python values. *)

IntV(n) == [t |-> "int", v |-> n, s |-> ""]
FloatV(q) == [t |-> "float", v |-> q, s |-> ""]
BoolV(b) == [t |-> "bool", v |-> IF b THEN 1 ELSE 0, s |-> ""]
StrV(x) == [t |-> "str", v |-> 0, s |-> x]
NoneV == [t |-> "none", v |-> 0, s |-> ""]
NaN == [t |-> "nan", v |-> 0, s |-> ""]
Inf == [t |-> "inf", v |-> 1, s |-> ""]

\* isinstance(x, int): bool is a subclass of int.
IsInt(x) == x.t \in {"int", "bool"}

\* isinstance(x, numbers.Real): int, bool and every float, nan and inf included.
IsReal(x) == x.t \in {"int", "bool", "float", "nan", "inf"}

\* math.isfinite(float(x)) for a real x.
IsFinite(x) == x.t \in {"int", "bool", "float"}

\* The value of a finite real, in hundredths.
Num(x) == IF x.t = "float" THEN x.v ELSE 100 * x.v

\* x > 0, x >= 0 and x <= 0 on reals: every comparison with nan is False.
GtZero(x) == IF x.t = "nan" THEN FALSE ELSE IF x.t = "inf" THEN x.v > 0 ELSE Num(x) > 0
GeZero(x) == IF x.t = "nan" THEN FALSE ELSE IF x.t = "inf" THEN x.v > 0 ELSE Num(x) >= 0
LeZero(x) == IF x.t = "nan" THEN FALSE ELSE IF x.t = "inf" THEN x.v < 0 ELSE Num(x) <= 0

\* Python's == on two values: numbers compare by value across int, bool and
\* float, nan equals nothing, everything else by type and content.
PyEq(a, b) ==
    IF a.t = "nan" \/ b.t = "nan" THEN FALSE
    ELSE IF IsFinite(a) /\ IsFinite(b) THEN Num(a) = Num(b)
    ELSE a.t = b.t /\ a.v = b.v /\ a.s = b.s

\* == on two lists.
ListEq(a, b) == Len(a) = Len(b) /\ \A j \in 1..Len(a) : PyEq(a[j], b[j])

\* n / d rounded to the nearest integer, ties to even (d > 0).
RoundHalfEven(n, d) ==
    LET q == n \div d
        r == n % d
    IN  IF 2 * r < d THEN q
        ELSE IF 2 * r > d THEN q + 1
        ELSE IF q % 2 = 0 THEN q ELSE q + 1

\* float(x * y) for finite reals x, y.
FMul(x, y) == FloatV(RoundHalfEven(Num(x) * Num(y), 100))

---------------------------------------------------------------------------
(* FractalTreeParameters. *)

ScalarFields ==
    {"meshfile", "init_node_id", "second_node_id", "init_length", "N_it",
     "length", "branch_angle", "w", "l_segment", "save"}

ListFields == {"fascicles_angles", "fascicles_length"}

Fields == ScalarFields \cup ListFields

\* The dataclass's field defaults.
DefaultParams ==
    [meshfile |-> NoneV, init_node_id |-> IntV(0), second_node_id |-> IntV(1),
     init_length |-> FloatV(10), N_it |-> IntV(10), length |-> FloatV(10),
     branch_angle |-> FloatV(15), w |-> FloatV(10), l_segment |-> FloatV(1),
     fascicles_angles |-> <<>>, fascicles_length |-> <<>>, save |-> BoolV(FALSE)]

\* math.pi in hundredths, rounded down: x <= math.pi iff Num(x) <= PiHundredths.
PiHundredths == 314

NoError == [kind |-> "ok", check |-> ""]
Raise(kind, check) == [kind |-> kind, check |-> check]

\* The five scalars of the validation tuple, in its order.
TupleFields == <<"init_length", "N_it", "length", "w", "l_segment">>

TupleCond(name, x) == IF name \in {"N_it", "w"} THEN GeZero(x) ELSE GtZero(x)

MinNum(a, b) == IF a <= b THEN a ELSE b

MaxNum(a, b) == IF a >= b THEN a ELSE b

SegmentExceedsMax(p) == Num(p.l_segment) > MaxNum(Num(p.init_length), Num(p.length))

\* min_len = min(float(init_length), float(length)); float(l_segment) > min_len.
SegmentExceeds(p) == Num(p.l_segment) > MinNum(Num(p.init_length), Num(p.length))

\* The first j with bad[j], or 0.
FirstBad(bad) ==
    IF \E j \in 1..Len(bad) : bad[j]
    THEN CHOOSE j \in 1..Len(bad) : bad[j] /\ \A h \in 1..(j - 1) : ~bad[h]
    ELSE 0

\* __post_init__: the first check that fails, or NoError.
PostInit(p) ==
    LET badTuple(j) ==
            ~IsReal(p[TupleFields[j]]) \/ ~IsFinite(p[TupleFields[j]])
                \/ ~TupleCond(TupleFields[j], p[TupleFields[j]])
        t == FirstBad([j \in 1..Len(TupleFields) |-> badTuple(j)])
        badAngle(j) == ~IsReal(p.fascicles_angles[j]) \/ ~IsFinite(p.fascicles_angles[j])
        badLength(j) ==
            ~IsReal(p.fascicles_length[j]) \/ ~IsFinite(p.fascicles_length[j])
                \/ LeZero(p.fascicles_length[j])
    IN  IF ~IsInt(p.init_node_id) \/ Num(p.init_node_id) < 0
            THEN Raise("TypeError", "init_node_id")
        ELSE IF ~IsInt(p.second_node_id) \/ Num(p.second_node_id) < 0
            THEN Raise("TypeError", "second_node_id")
        ELSE IF PyEq(p.second_node_id, p.init_node_id)
            THEN Raise("ValueError", "node_ids_differ")
        \* Building the tuple compares each scalar with 0: None or a str raises.
        ELSE IF \E j \in 1..Len(TupleFields) : ~IsReal(p[TupleFields[j]])
            THEN Raise("TypeError", "compare")
        ELSE IF t # 0
            THEN Raise("ValueError", TupleFields[t])
        ELSE IF ~IsReal(p.branch_angle) \/ ~IsFinite(p.branch_angle)
            THEN Raise("TypeError", "branch_angle")
        ELSE IF ~(0 < Num(p.branch_angle) /\ Num(p.branch_angle) <= PiHundredths)
            THEN Raise("ValueError", "branch_angle")
        ELSE IF SegmentExceeds(p)
            THEN Raise("ValueError", "l_segment_min")
        ELSE IF Len(p.fascicles_angles) # Len(p.fascicles_length)
            THEN Raise("ValueError", "fascicles_same_length")
        ELSE IF \E j \in 1..Len(p.fascicles_angles) : badAngle(j)
            THEN Raise("TypeError", "fascicles_angles")
        ELSE IF \E j \in 1..Len(p.fascicles_length) : badLength(j)
            THEN Raise("ValueError", "fascicles_length")
        ELSE NoError

\* What a constructor call that raised leaves behind: no object.
NoObject == <<>>

\* FractalTreeParameters(**kw): the generated __init__ fills the fields kw
\* leaves out with their defaults, then runs __post_init__; an object exists
\* only when that raises nothing.
Construct(kw) ==
    LET p == [f \in Fields |-> IF f \in DOMAIN kw THEN kw[f] ELSE DefaultParams[f]]
    IN  [err |-> PostInit(p), obj |-> IF PostInit(p) = NoError THEN p ELSE NoObject]

\* The keyword arguments replace hands to the constructor: p's fields,
\* overridden by changes.
Merged(p, changes) == [f \in Fields |-> IF f \in DOMAIN changes THEN changes[f] ELSE p[f]]

\* dataclasses.replace(p, **changes).
Replace(p, changes) == Construct(Merged(p, changes))

FromDictStrict(data) ==
    IF DOMAIN data \subseteq Fields
    THEN [err |-> Construct(data).err, obj |-> Construct(data).obj, warned |-> FALSE]
    ELSE [err |-> Raise("TypeError", "unexpected_keyword"), obj |-> NoObject, warned |-> FALSE]

\* from_dict(data): the keys that are no field are logged and dropped, the
\* rest goes to the constructor.
FromDict(data) ==
    LET unknown == DOMAIN data \ Fields
        filtered == [k \in DOMAIN data \cap Fields |-> data[k]]
    IN  [err |-> Construct(filtered).err, obj |-> Construct(filtered).obj,
         warned |-> unknown # {}]

\* to_dict(): asdict copies every field, the lists element by element.
ToDict(p) == [f \in Fields |-> p[f]]

\* The fields in the order the dataclass declares them, which is the order
\* of the keys of asdict and of the JSON text.
FieldOrder ==
    <<"meshfile", "init_node_id", "second_node_id", "init_length", "N_it", "length",
      "branch_angle", "w", "l_segment", "fascicles_angles", "fascicles_length", "save">>

\* json.dumps of one scalar: the JSON literal it writes.
DumpsScalar(x) ==
    CASE x.t = "none" -> [j |-> "null", v |-> 0, s |-> "", elems |-> <<>>]
      [] x.t = "bool" -> [j |-> IF x.v = 1 THEN "true" ELSE "false", v |-> 0, s |-> "", elems |-> <<>>]
      [] x.t = "int" -> [j |-> "int", v |-> x.v, s |-> "", elems |-> <<>>]
      [] x.t = "float" -> [j |-> "real", v |-> x.v, s |-> "", elems |-> <<>>]
      [] x.t = "nan" -> [j |-> "NaN", v |-> 0, s |-> "", elems |-> <<>>]
      [] x.t = "inf" -> [j |-> "Infinity", v |-> x.v, s |-> "", elems |-> <<>>]
      [] x.t = "str" -> [j |-> "string", v |-> 0, s |-> x.s, elems |-> <<>>]

\* json.dumps of one field's value: a list becomes an array.
DumpsField(f, x) ==
    IF f \in ListFields
    THEN [j |-> "array", v |-> 0, s |-> "", elems |-> [n \in 1..Len(x) |-> DumpsScalar(x[n])]]
    ELSE DumpsScalar(x)

\* to_json(indent): the object's dict as JSON text: the key/value pairs in
\* field order, broken into lines unless indent is None.
ToJson(p, indent) ==
    [newlines |-> indent # "None",
     items |-> [n \in 1..Len(FieldOrder) |->
                   [key |-> FieldOrder[n], val |-> DumpsField(FieldOrder[n], ToDict(p)[FieldOrder[n]])]]]

LoadsScalarAllFloat(x) ==
    CASE x.j = "null" -> NoneV
      [] x.j = "true" -> BoolV(TRUE)
      [] x.j = "false" -> BoolV(FALSE)
      [] x.j = "int" -> FloatV(100 * x.v)
      [] x.j = "real" -> FloatV(x.v)
      [] x.j = "NaN" -> NaN
      [] x.j = "Infinity" -> [t |-> "inf", v |-> x.v, s |-> ""]
      [] x.j = "string" -> StrV(x.s)

\* json.loads of one scalar literal.
LoadsScalar(x) ==
    CASE x.j = "null" -> NoneV
      [] x.j = "true" -> BoolV(TRUE)
      [] x.j = "false" -> BoolV(FALSE)
      [] x.j = "int" -> IntV(x.v)
      [] x.j = "real" -> FloatV(x.v)
      [] x.j = "NaN" -> NaN
      [] x.j = "Infinity" -> [t |-> "inf", v |-> x.v, s |-> ""]
      [] x.j = "string" -> StrV(x.s)

LoadsValue(x) ==
    IF x.j = "array" THEN [n \in 1..Len(x.elems) |-> LoadsScalar(x.elems[n])]
    ELSE LoadsScalar(x)

\* json.loads of the text: a dict; of two pairs with one key the later wins.
Loads(text) ==
    LET keys == {text.items[n].key : n \in 1..Len(text.items)}
        last(k) == CHOOSE n \in 1..Len(text.items) :
                      /\ text.items[n].key = k
                      /\ \A h \in (n + 1)..Len(text.items) : text.items[h].key # k
    IN  [k \in keys |-> LoadsValue(text.items[last(k)].val)]

\* from_json(s).
FromJson(text) == FromDict(Loads(text))

---------------------------------------------------------------------------
(* Failure messages of the growth engine, as sequences of characters. *)

MsgOutOfDomain ==
    <<"o", "u", "t", " ", "o", "f", " ", "t", "h", "e", " ", "d", "o", "m", "a", "i", "n">>
MsgDomainName == <<"D", "o", "M", "A", "I", "N", " ", "n", "a", "m", "e">>
MsgBoom == <<"b", "o", "o", "m">>
MsgDoMain == <<"d", "o", " ", "m", "a", "i", "n">>

Messages == {MsgOutOfDomain, MsgDomainName, MsgBoom, MsgDoMain}

\* str.lower() on one character.
LowerChar(c) ==
    CASE c = "A" -> "a" [] c = "B" -> "b" [] c = "C" -> "c" [] c = "D" -> "d"
      [] c = "E" -> "e" [] c = "F" -> "f" [] c = "G" -> "g" [] c = "H" -> "h"
      [] c = "I" -> "i" [] c = "J" -> "j" [] c = "K" -> "k" [] c = "L" -> "l"
      [] c = "M" -> "m" [] c = "N" -> "n" [] c = "O" -> "o" [] c = "P" -> "p"
      [] c = "Q" -> "q" [] c = "R" -> "r" [] c = "S" -> "s" [] c = "T" -> "t"
      [] c = "U" -> "u" [] c = "V" -> "v" [] c = "W" -> "w" [] c = "X" -> "x"
      [] c = "Y" -> "y" [] c = "Z" -> "z" [] OTHER -> c

Lower(m) == [j \in 1..Len(m) |-> LowerChar(m[j])]

\* needle in hay.
Contains(hay, needle) ==
    \E j \in 1..(Len(hay) - Len(needle) + 1) :
        SubSeq(hay, j, j + Len(needle) - 1) = needle

IsDomainExitCaseSensitive(m) ==
    Contains(m, MsgOutOfDomain) \/ Contains(m, <<"d", "o", "m", "a", "i", "n">>)

\* The handler's test: msg = str(e).lower();
\* "out of the domain" in msg or "domain" in msg.
IsDomainExit(m) ==
    LET msg == Lower(m)
    IN  Contains(msg, MsgOutOfDomain) \/ Contains(msg, <<"d", "o", "m", "a", "i", "n">>)

---------------------------------------------------------------------------
(* grow_with_retry. *)

\* An exception: the engine's (kind "engine", raised on that attempt with that
\* message), the constructor's (TypeError, ValueError; msg names the check),
\* or the RuntimeError after the loop, which carries the last error.
NoExc == [kind |-> "none", attempt |-> 0, msg |-> <<>>, last |-> <<>>]
EngineExc(n, m) == [kind |-> "engine", attempt |-> n, msg |-> m, last |-> <<>>]
ConfigExc(err) == [kind |-> err.kind, attempt |-> 0, msg |-> <<err.check>>, last |-> <<>>]
\* RuntimeError(f"Failed to grow tree after ... Last error: {last_err}").
RetryExhausted(last_err) ==
    [kind |-> "RuntimeError", attempt |-> 0, msg |-> <<>>, last |-> <<last_err>>]

\* What one call of the engine did, for the record of the run.
Returned == [ok |-> TRUE, msg |-> <<>>]
Raised(m) == [ok |-> FALSE, msg |-> m]

LoopContinuesOffByOne(i, max_tries) == i <= max_tries

\* for i in range(max_tries): whether the loop runs with this i.
LoopContinues(i, max_tries) == i < max_tries

ReraiseWrapped(e) == RetryExhausted(e)

\* The bare raise of the handler: the exception caught, as it is.
Reraise(e) == e

\* A grown tree: the attempt that grew it and the parameters it was grown from.
NoTree == [attempt |-> 0, params |-> DefaultParams]
Tree(n, p) == [attempt |-> n, params |-> p]

\* The shrink factors tried.  grow_with_retry checks neither shrink nor
\* max_tries (main does), so values outside (0, 1] and below 1 are included.
Shrinks == {FloatV(0), FloatV(50), FloatV(75), FloatV(100)}

InUnitInterval(s) == 0 < Num(s) /\ Num(s) <= 100

Lengths == {FloatV(n) : n \in 1..MaxLen}

FascLens == {FloatV(1), FloatV(MaxLen)}

SeqsUpTo(S, n) == UNION {[1..m -> S] : m \in 0..n}

\* The parameter objects grow_with_retry is started with: every object the
\* constructor accepts for these keyword arguments.
StartKw ==
    {[init_length |-> a, length |-> b, l_segment |-> c,
      fascicles_length |-> fl, fascicles_angles |-> [j \in 1..Len(fl) |-> FloatV(2 + j)]] :
        a \in Lengths, b \in Lengths, c \in Lengths, fl \in SeqsUpTo(FascLens, MaxFasc)}

StartParams == {Construct(kw).obj : kw \in {k \in StartKw : Construct(k).err = NoError}}

ShrinkChangesNoSegment(p, shrink) ==
    [init_length |-> FMul(p.init_length, shrink),
     length |-> FMul(p.length, shrink),
     fascicles_length |-> [j \in 1..Len(p.fascicles_length) |-> FMul(p.fascicles_length[j], shrink)]]

ShrinkChangesAndWidth(p, shrink) ==
    [init_length |-> FMul(p.init_length, shrink),
     length |-> FMul(p.length, shrink),
     l_segment |-> FMul(p.l_segment, shrink),
     w |-> FMul(p.w, shrink),
     fascicles_length |-> [j \in 1..Len(p.fascicles_length) |-> FMul(p.fascicles_length[j], shrink)]]

\* The replace(...) of the handler: the four length-valued fields times shrink.
ShrinkChanges(p, shrink) ==
    [init_length |-> FMul(p.init_length, shrink),
     length |-> FMul(p.length, shrink),
     l_segment |-> FMul(p.l_segment, shrink),
     fascicles_length |-> [j \in 1..Len(p.fascicles_length) |-> FMul(p.fascicles_length[j], shrink)]]

RcIdle ==
    [pc |-> "Idle", params |-> DefaultParams, max_tries |-> 0, shrink |-> FloatV(100),
     p |-> DefaultParams, i |-> 0, last_err |-> NoExc, calls |-> 0, hist |-> <<>>,
     ret_p |-> DefaultParams, ret_ft |-> NoTree, raised |-> NoExc]

RcInit ==
    \E params \in StartParams, max_tries \in 0..MaxTries, shrink \in Shrinks :
        rc = [RcIdle EXCEPT !.pc = "Ready", !.params = params,
                            !.max_tries = max_tries, !.shrink = shrink]

\* p = params; last_err = None; enter the loop (range(max_tries) may be empty).
Begin ==
    /\ rc.pc = "Ready"
    /\ rc' = [rc EXCEPT !.p = rc.params, !.last_err = NoExc, !.i = 0,
                        !.pc = IF LoopContinues(0, rc.max_tries) THEN "Attempting" ELSE "Failed",
                        !.raised = IF LoopContinues(0, rc.max_tries) THEN NoExc
                                   ELSE RetryExhausted(NoExc)]
    /\ UNCHANGED <<pv, hp, sd, sh, ov, pl>>

GrowSucceedsReturnsParams ==
    /\ rc.pc = "Attempting"
    /\ rc' = [rc EXCEPT !.calls = rc.calls + 1,
                        !.hist = Append(rc.hist, Returned),
                        !.ret_p = rc.params,
                        !.ret_ft = Tree(rc.calls + 1, rc.p),
                        !.pc = "Success"]
    /\ UNCHANGED <<pv, hp, sd, sh, ov, pl>>

\* FractalTree(p).grow_tree() returns: return p, ft.
GrowSucceeds ==
    /\ rc.pc = "Attempting"
    /\ rc' = [rc EXCEPT !.calls = rc.calls + 1,
                        !.hist = Append(rc.hist, Returned),
                        !.ret_p = rc.p,
                        !.ret_ft = Tree(rc.calls + 1, rc.p),
                        !.pc = "Success"]
    /\ UNCHANGED <<pv, hp, sd, sh, ov, pl>>

\* The engine raises e: last_err = e; a domain exit goes on to the shrink,
\* anything else is re-raised as it is.
GrowFails ==
    /\ rc.pc = "Attempting"
    /\ \E m \in Messages :
        LET e == EngineExc(rc.calls + 1, m)
        IN  rc' = [rc EXCEPT !.calls = rc.calls + 1,
                             !.hist = Append(rc.hist, Raised(m)),
                             !.last_err = e,
                             !.pc = IF IsDomainExit(m) THEN "ShrinkRetry" ELSE "Failed",
                             !.raised = IF IsDomainExit(m) THEN NoExc ELSE Reraise(e)]
    /\ UNCHANGED <<pv, hp, sd, sh, ov, pl>>

ShrinkRetryAbsorbsInvalid ==
    /\ rc.pc = "ShrinkRetry"
    /\ LET r == Replace(rc.p, ShrinkChanges(rc.p, rc.shrink))
       IN  rc' = [rc EXCEPT !.p = IF r.err # NoError THEN rc.p ELSE r.obj,
                            !.i = rc.i + 1,
                            !.pc = IF LoopContinues(rc.i + 1, rc.max_tries)
                                   THEN "Attempting" ELSE "Failed",
                            !.raised = IF LoopContinues(rc.i + 1, rc.max_tries) THEN NoExc
                                       ELSE RetryExhausted(rc.last_err)]
    /\ UNCHANGED <<pv, hp, sd, sh, ov, pl>>

\* p = replace(p, ...); continue.  The constructor's error leaves the handler;
\* otherwise the loop goes on, and when range(max_tries) is used up the
\* RuntimeError after the loop is raised.
ShrinkRetry ==
    /\ rc.pc = "ShrinkRetry"
    /\ LET r == Replace(rc.p, ShrinkChanges(rc.p, rc.shrink))
       IN  IF r.err # NoError
           THEN rc' = [rc EXCEPT !.pc = "Failed", !.raised = ConfigExc(r.err)]
           ELSE rc' = [rc EXCEPT !.p = r.obj,
                                 !.i = rc.i + 1,
                                 !.pc = IF LoopContinues(rc.i + 1, rc.max_tries)
                                        THEN "Attempting" ELSE "Failed",
                                 !.raised = IF LoopContinues(rc.i + 1, rc.max_tries) THEN NoExc
                                            ELSE RetryExhausted(rc.last_err)]
    /\ UNCHANGED <<pv, hp, sd, sh, ov, pl>>

RetryNext == Begin \/ GrowSucceeds \/ GrowFails \/ ShrinkRetry

PvIdle == [pc |-> "Idle"]
HpIdle == [pc |-> "Idle"]
SdIdle == [pc |-> "Idle"]
ShIdle == [pc |-> "Idle"]
OvIdle == [pc |-> "Idle"]
PlIdle == [pc |-> "Idle"]

\* The components that a specification of one component leaves idle.
RestIdle == sh = ShIdle /\ ov = OvIdle /\ pl = PlIdle

RetryInit == RcInit /\ pv = PvIdle /\ hp = HpIdle /\ sd = SdIdle /\ RestIdle

SpecRetry == RetryInit /\ [][RetryNext]_vars

---------------------------------------------------------------------------
(* Claims about grow_with_retry, checked under SpecRetry. *)

\* The messages of Messages that contain "domain" in any letter case.
DomainMessages == {MsgOutOfDomain, MsgDomainName}

\* Every call of the engine so far failed with a domain exit.
AllDomainExits ==
    \A n \in 1..Len(rc.hist) : ~rc.hist[n].ok /\ rc.hist[n].msg \in DomainMessages

\* Calls 1..k-1 failed with a domain exit and call k with something else.
NonDomainAtLast ==
    /\ Len(rc.hist) >= 1
    /\ \A n \in 1..(Len(rc.hist) - 1) : ~rc.hist[n].ok /\ rc.hist[n].msg \in DomainMessages
    /\ ~rc.hist[Len(rc.hist)].ok
    /\ rc.hist[Len(rc.hist)].msg \notin DomainMessages

\* Calls 1..k failed with a domain exit and call k+1 succeeded.
SuccessAtLast ==
    /\ Len(rc.hist) >= 1
    /\ \A n \in 1..(Len(rc.hist) - 1) : ~rc.hist[n].ok /\ rc.hist[n].msg \in DomainMessages
    /\ rc.hist[Len(rc.hist)].ok

\* The fields of p after k shrinks by s.
RECURSIVE ShrinkK(_, _, _)
ShrinkK(p, s, k) ==
    IF k = 0 THEN p ELSE ShrinkK(Merged(p, ShrinkChanges(p, s)), s, k - 1)

\* Whether the k-th shrink of p by s yields an object the constructor accepts.
ShrinkAccepted(p, s, k) == PostInit(ShrinkK(p, s, k)) = NoError

\* The first of the shrinks 1..n that the constructor rejects, or 0.
FirstRejectedShrink(p, s, n) ==
    IF \E k \in 1..n : ~ShrinkAccepted(p, s, k)
    THEN CHOOSE k \in 1..n :
            ~ShrinkAccepted(p, s, k) /\ \A h \in 1..(k - 1) : ShrinkAccepted(p, s, h)
    ELSE 0

\* v is the float nearest to s * old: the product as the code computes it.
IsProduct(v, old, s) ==
    /\ v.t = "float"
    /\ 2 * (100 * v.v - Num(old) * Num(s)) <= 100
    /\ 2 * (Num(old) * Num(s) - 100 * v.v) <= 100

RcExhaustedCase ==
    /\ rc.pc = "Failed"
    /\ rc.max_tries >= 1
    /\ InUnitInterval(rc.shrink)
    /\ AllDomainExits

\* C1 as stated: with T >= 1, s in (0, 1] and an engine that fails with a
\* domain exit on every call, the run ends after exactly T calls of the engine
\* with RetryExhausted carrying the failure of call T.
C1_ExhaustionAlways ==
    RcExhaustedCase =>
        /\ rc.calls = rc.max_tries
        /\ rc.raised = RetryExhausted(EngineExc(rc.max_tries, rc.hist[rc.max_tries].msg))

\* C1 as amended: the same, provided each of the T shrinks yields an object
\* the constructor accepts; when shrink number k is the first it rejects (a
\* length rounded to 0.0), the run ends after exactly k calls with the
\* constructor's ValueError.
C1_ExhaustionUnlessShrinkRejected ==
    RcExhaustedCase =>
        LET k == FirstRejectedShrink(rc.params, rc.shrink, rc.max_tries)
        IN  IF k = 0
            THEN /\ rc.calls = rc.max_tries
                 /\ rc.raised = RetryExhausted(EngineExc(rc.max_tries, rc.hist[rc.max_tries].msg))
            ELSE /\ rc.calls = k
                 /\ rc.raised.kind = "ValueError"

C1_Witness ==
    /\ RcExhaustedCase
    /\ rc.max_tries >= 2
    /\ rc.calls = rc.max_tries
    /\ rc.raised.kind = "RuntimeError"
    /\ Num(rc.shrink) < 100

\* C2: when calls 1..k-1 fail with a domain exit and call k fails with
\* anything else, the run ends after exactly k calls, no shrink follows call
\* k, and the failure surfaced is that of call k itself.
C2_NonRetry ==
    (rc.pc # "Attempting" /\ NonDomainAtLast) =>
        /\ rc.pc = "Failed"
        /\ rc.calls = Len(rc.hist)
        /\ rc.raised = EngineExc(rc.calls, rc.hist[rc.calls].msg)
        /\ rc.raised = rc.last_err
        /\ rc.i = rc.calls - 1
        /\ rc.p = ShrinkK(rc.params, rc.shrink, rc.calls - 1)
        /\ ~ENABLED RetryNext

C2_Witness ==
    /\ rc.pc = "Failed"
    /\ NonDomainAtLast
    /\ rc.calls = 2
    /\ rc.raised.kind = "engine"
    /\ rc.p # rc.params

C4_SuccessResult ==
    (rc.pc # "Attempting" /\ SuccessAtLast) =>
        LET k == Len(rc.hist) - 1
        IN  /\ rc.pc = "Success"
            /\ rc.calls = k + 1
            /\ k < rc.max_tries
            /\ rc.ret_ft = Tree(k + 1, rc.ret_p)
            /\ rc.ret_p = ShrinkK(rc.params, rc.shrink, k)
            /\ k = 0 => rc.ret_p = rc.params
            /\ k >= 1 =>
                  \A f \in {"init_length", "length", "l_segment"} :
                      IsProduct(rc.ret_p[f], ShrinkK(rc.params, rc.shrink, k - 1)[f], rc.shrink)
            /\ ~ENABLED RetryNext

C4_Witness ==
    /\ rc.pc = "Success"
    /\ rc.calls = 3
    /\ Num(rc.shrink) = 50
    /\ rc.ret_p.length # rc.params.length
    /\ rc.ret_p.length = FloatV(1)

---------------------------------------------------------------------------
(* Construction, from_dict and the round trips of FractalTreeParameters. *)

\* The values tried for each keyword argument: valid ones, the boundary
\* values of each check, and values each check rejects.
Candidates ==
    [meshfile |-> {StrV("mesh.obj")},
     init_node_id |-> {IntV(2), IntV(1), IntV(0 - 1), FloatV(200)},
     second_node_id |-> {IntV(3), IntV(0), IntV(0 - 2)},
     init_length |-> {FloatV(2), FloatV(25), FloatV(0), Inf, IntV(1)},
     N_it |-> {IntV(8), IntV(0), IntV(0 - 1), FloatV(250), NoneV},
     length |-> {FloatV(15), FloatV(1), FloatV(0 - 10), NaN},
     branch_angle |-> {FloatV(20), FloatV(314), FloatV(0), FloatV(414), NaN},
     w |-> {FloatV(5), FloatV(0), FloatV(0 - 1)},
     l_segment |-> {FloatV(20), FloatV(10), FloatV(2), FloatV(0)},
     fascicles_angles |-> {<<FloatV(10)>>, <<FloatV(0 - 30), FloatV(60)>>, <<NaN>>},
     fascicles_length |-> {<<FloatV(5)>>, <<FloatV(20), IntV(4)>>, <<FloatV(0)>>},
     save |-> {BoolV(TRUE)}]

\* Every mapping from the keys D to their candidates.
RECURSIVE KwMapsOver(_)
KwMapsOver(D) ==
    IF D = {} THEN {<<>>}
    ELSE LET k == CHOOSE k \in D : TRUE
         IN  {(k :> x) @@ m : x \in Candidates[k], m \in KwMapsOver(D \ {k})}

\* The keyword arguments tried: at most MaxKw of the fields.
KwMaps == UNION {KwMapsOver(D) : D \in {S \in SUBSET Fields : Cardinality(S) <= MaxKw}}

\* Keys that are no field, with their values.
UnknownItems == {<<>>, "unknown_key" :> IntV(123), ("unknown_key" :> IntV(123)) @@ ("Length" :> FloatV(0 - 5))}

NoResult == [err |-> NoError, obj |-> NoObject, warned |-> FALSE]
NoText == [newlines |-> FALSE, items |-> <<>>]

PvStart == [pc |-> "start", kw |-> <<>>, data |-> <<>>, out |-> NoResult, rt |-> NoResult, text |-> NoText]

PvInit == \E kw \in KwMaps : pv = [PvStart EXCEPT !.kw = kw]

\* FractalTreeParameters(**kw).
PvConstruct ==
    /\ pv.pc = "start"
    /\ pv' = [pv EXCEPT !.pc = "constructed",
                        !.out = [err |-> Construct(pv.kw).err, obj |-> Construct(pv.kw).obj,
                                 warned |-> FALSE]]
    /\ UNCHANGED <<rc, hp, sd, sh, ov, pl>>

\* FractalTreeParameters.from_dict(data), data being kw and some unknown keys.
PvFromDict ==
    /\ pv.pc = "start"
    /\ \E extra \in UnknownItems :
        pv' = [pv EXCEPT !.pc = "loaded", !.data = pv.kw @@ extra,
                         !.out = FromDict(pv.kw @@ extra)]
    /\ UNCHANGED <<rc, hp, sd, sh, ov, pl>>

\* from_dict(p.to_dict()) on the object constructed.
PvRoundTripDict ==
    /\ pv.pc = "constructed"
    /\ pv.out.err = NoError
    /\ pv' = [pv EXCEPT !.pc = "rt_dict", !.data = ToDict(pv.out.obj),
                        !.rt = FromDict(ToDict(pv.out.obj))]
    /\ UNCHANGED <<rc, hp, sd, sh, ov, pl>>

\* from_json(p.to_json(indent)) on the object constructed.
PvRoundTripJson ==
    /\ pv.pc = "constructed"
    /\ pv.out.err = NoError
    /\ \E indent \in {"2", "None"} :
        pv' = [pv EXCEPT !.pc = "rt_json", !.text = ToJson(pv.out.obj, indent),
                         !.rt = FromJson(ToJson(pv.out.obj, indent))]
    /\ UNCHANGED <<rc, hp, sd, sh, ov, pl>>

ParamsNext == PvConstruct \/ PvFromDict \/ PvRoundTripDict \/ PvRoundTripJson

ParamsInit == PvInit /\ rc = RcIdle /\ hp = HpIdle /\ sd = SdIdle /\ RestIdle

SpecParams == ParamsInit /\ [][ParamsNext]_vars

---------------------------------------------------------------------------
(* Claims about FractalTreeParameters, checked under SpecParams. *)

\* The field values the constructor call of this run is made with.
PvArgs == Merged(DefaultParams, pv.kw)

\* A constructor call has been made, directly or by from_dict.
PvCalled == pv.pc \in {"constructed", "loaded"}

\* The three lengths are finite numbers and l_segment > min(init_length, length).
SegmentTooLong(a) ==
    /\ \A f \in {"init_length", "length", "l_segment"} : IsReal(a[f]) /\ IsFinite(a[f])
    /\ \E f \in {"init_length", "length"} : Num(a.l_segment) > Num(a[f])

\* No check that raises TypeError fails: the node ids are nonnegative ints,
\* the five scalars of the tuple are numbers, branch_angle is a finite real.
NoTypeErrorCheckFails(a) ==
    /\ IsInt(a.init_node_id) /\ Num(a.init_node_id) >= 0
    /\ IsInt(a.second_node_id) /\ Num(a.second_node_id) >= 0
    /\ \A j \in 1..Len(TupleFields) : IsReal(a[TupleFields[j]])
    /\ IsReal(a.branch_angle) /\ IsFinite(a.branch_angle)

\* Every object constructed has l_segment <= min(init_length, length).
SegmentInvariantOfObjects ==
    pv.out.err = NoError =>
        /\ Num(pv.out.obj.l_segment) <= Num(pv.out.obj.init_length)
        /\ Num(pv.out.obj.l_segment) <= Num(pv.out.obj.length)

\* C5 as stated: every object constructed has l_segment <= min(init_length,
\* length), and every constructor call with l_segment > min(init_length,
\* length) fails with ValueError and yields no object.
C5_SegmentAlwaysValueError ==
    PvCalled =>
        /\ SegmentInvariantOfObjects
        /\ SegmentTooLong(PvArgs) => (pv.out.err.kind = "ValueError" /\ pv.out.obj = NoObject)

\* C5 as amended: every object constructed has l_segment <= min(init_length,
\* length), and every constructor call with l_segment > min(init_length,
\* length) fails and yields no object: with ValueError when the node ids are
\* nonnegative ints, the scalars are numbers and branch_angle is a finite
\* real, and otherwise with ValueError or with the TypeError of one of those
\* checks, whichever check fails first.
C5_SegmentInvariant ==
    PvCalled =>
        /\ SegmentInvariantOfObjects
        /\ SegmentTooLong(PvArgs) =>
            /\ pv.out.obj = NoObject
            /\ pv.out.err.kind \in {"ValueError", "TypeError"}
            /\ NoTypeErrorCheckFails(PvArgs) => pv.out.err.kind = "ValueError"
            /\ pv.out.err.kind = "TypeError" =>
                  pv.out.err.check \in {"init_node_id", "second_node_id", "compare", "branch_angle"}

\* The test's case: l_segment above init_length only, everything else valid.
C5_Witness ==
    /\ pv.pc = "constructed"
    /\ SegmentTooLong(PvArgs)
    /\ Num(PvArgs.l_segment) <= Num(PvArgs.length)
    /\ pv.out.err = Raise("ValueError", "l_segment_min")

\* The dataclass's __eq__: the fields compared in order with Python's ==.
ParamsEq(a, b) ==
    /\ \A f \in ScalarFields : PyEq(a[f], b[f])
    /\ \A f \in ListFields : ListEq(a[f], b[f])

\* C7: for every object constructed, from_dict(to_dict(p)) and
\* from_json(to_json(p)), indented or compact, succeed and equal p.
C7_RoundTrip ==
    pv.pc \in {"rt_dict", "rt_json"} =>
        /\ pv.rt.err = NoError
        /\ ParamsEq(pv.rt.obj, pv.out.obj)
        /\ \A f \in Fields : pv.rt.obj[f] = pv.out.obj[f]

C7_Witness ==
    /\ pv.pc = "rt_json"
    /\ ~pv.text.newlines
    /\ Len(pv.out.obj.fascicles_length) = 2
    /\ pv.out.obj.fascicles_length[2].t = "int"
    /\ pv.rt.err = NoError

\* C8: from_dict(m) has the outcome of the constructor on m restricted to
\* the field names, the same object or the same failure, whatever unknown
\* keys m holds; those only make it log a warning.
C8_FromDictIgnoresUnknown ==
    pv.pc = "loaded" =>
        /\ pv.kw = [k \in DOMAIN pv.data \cap Fields |-> pv.data[k]]
        /\ pv.out.err = Construct(pv.kw).err
        /\ pv.out.obj = Construct(pv.kw).obj
        /\ pv.out.warned = (DOMAIN pv.data \ Fields # {})

C8_Witness ==
    /\ pv.pc = "loaded"
    /\ Cardinality(DOMAIN pv.data \ Fields) = 2
    /\ pv.out.warned
    /\ pv.out.err = NoError
    /\ pv.out.obj.N_it = IntV(8)

---------------------------------------------------------------------------
(* FractalTreeParameters objects on the heap: an object holds its scalar    *)
(* fields and, for the two list fields, references to list objects, which   *)
(* two objects may share.                                                   *)

EmptyHeap == [objs |-> <<>>, lists |-> <<>>, born |-> <<>>, last |-> "none", err |-> NoError]

\* The field values of object o, its lists read through their references.
Deref(h, o) ==
    [f \in Fields |-> IF f \in ListFields THEN h.lists[h.objs[o][f]] ELSE h.objs[o][f]]

\* The heap with a new object of field values p; refs gives, for the list
\* fields that reuse an existing list object, its reference; the other list
\* fields get new list objects.
Allocated(h, p, refs) ==
    LET n == Len(h.lists)
        ref(f) == IF f \in DOMAIN refs THEN refs[f]
                  ELSE IF f = "fascicles_angles" THEN n + 1 ELSE n + 2
    IN  [h EXCEPT !.lists = h.lists \o <<p.fascicles_angles, p.fascicles_length>>,
                  !.objs = Append(h.objs, [f \in Fields |-> IF f \in ListFields THEN ref(f) ELSE p[f]]),
                  !.born = Append(h.born, p)]

\* FractalTreeParameters(**kw): the caller's lists and the default_factory's
\* are new list objects.
HeapConstruct(h, kw) ==
    IF Construct(kw).err = NoError
    THEN [Allocated(h, Construct(kw).obj, <<>>) EXCEPT !.last = "construct", !.err = NoError]
    ELSE [h EXCEPT !.last = "construct", !.err = Construct(kw).err]

HeapReplaceInPlace(h, o, changes) ==
    LET r == Replace(Deref(h, o), changes)
    IN  IF r.err = NoError
        THEN [h EXCEPT !.objs[o] = [f \in Fields |-> IF f \in ListFields THEN h.objs[o][f] ELSE r.obj[f]],
                       !.lists[h.objs[o].fascicles_angles] = r.obj.fascicles_angles,
                       !.lists[h.objs[o].fascicles_length] = r.obj.fascicles_length,
                       !.last = "replace", !.err = NoError]
        ELSE [h EXCEPT !.last = "replace", !.err = r.err]

\* dataclasses.replace(o, **changes): the constructor is called with o's field
\* values, overridden by changes; a list field that is not overridden is
\* handed over as the same list object.
HeapReplace(h, o, changes) ==
    LET r == Replace(Deref(h, o), changes)
        kept == ListFields \ DOMAIN changes
    IN  IF r.err = NoError
        THEN [Allocated(h, r.obj, [f \in kept |-> h.objs[o][f]])
                EXCEPT !.last = "replace", !.err = NoError]
        ELSE [h EXCEPT !.last = "replace", !.err = r.err]

\* from_dict(o.to_dict()): asdict copies the lists, the constructor keeps the copies.
HeapRoundTrip(h, o) ==
    LET r == FromDict(ToDict(Deref(h, o)))
    IN  IF r.err = NoError
        THEN [Allocated(h, r.obj, <<>>) EXCEPT !.last = "from_dict", !.err = NoError]
        ELSE [h EXCEPT !.last = "from_dict", !.err = r.err]

\* o.f = v: frozen=False, so the field is rebound; nothing is validated.
HeapSetAttr(h, o, f, v) == [h EXCEPT !.objs[o][f] = v, !.last = "setattr", !.err = NoError]

\* o.f[j] = v on a list field: the list object is changed.
HeapSetItem(h, o, f, j, v) ==
    [h EXCEPT !.lists[h.objs[o][f]][j] = v, !.last = "setitem", !.err = NoError]

HpKw ==
    {<<>>,
     [init_length |-> FloatV(4), length |-> FloatV(4), l_segment |-> FloatV(2),
      fascicles_angles |-> <<FloatV(10)>>, fascicles_length |-> <<FloatV(5)>>],
     [length |-> FloatV(0 - 10)]}

HpChanges ==
    {[length |-> FloatV(15)], [l_segment |-> FloatV(20)],
     [fascicles_length |-> <<FloatV(20)>>]}

HpAssignments == {<<"length", FloatV(0 - 10)>>, <<"N_it", IntV(3)>>}

HpObjects == 1..Len(hp.objs)

HpConstruct ==
    /\ Len(hp.objs) < MaxObjs
    /\ \E kw \in HpKw : hp' = HeapConstruct(hp, kw)
    /\ UNCHANGED <<rc, pv, sd, sh, ov, pl>>

HpReplace ==
    /\ Len(hp.objs) < MaxObjs
    /\ \E o \in HpObjects, changes \in HpChanges : hp' = HeapReplace(hp, o, changes)
    /\ UNCHANGED <<rc, pv, sd, sh, ov, pl>>

\* The shrink of grow_with_retry's handler, a replace.
HpShrink ==
    /\ Len(hp.objs) < MaxObjs
    /\ \E o \in HpObjects :
        hp' = [HeapReplace(hp, o, ShrinkChanges(Deref(hp, o), FloatV(50))) EXCEPT !.last = "shrink"]
    /\ UNCHANGED <<rc, pv, sd, sh, ov, pl>>

HpRoundTrip ==
    /\ Len(hp.objs) < MaxObjs
    /\ \E o \in HpObjects : hp' = HeapRoundTrip(hp, o)
    /\ UNCHANGED <<rc, pv, sd, sh, ov, pl>>

\* o.to_json(): reads o, writes nothing to it.
HpToJson ==
    /\ hp.last # "to_json"
    /\ \E o \in HpObjects : hp' = [hp EXCEPT !.last = "to_json", !.err = NoError]
    /\ UNCHANGED <<rc, pv, sd, sh, ov, pl>>

HpSetAttr ==
    /\ \E o \in HpObjects, a \in HpAssignments : hp' = HeapSetAttr(hp, o, a[1], a[2])
    /\ UNCHANGED <<rc, pv, sd, sh, ov, pl>>

HpSetItem ==
    /\ \E o \in HpObjects, f \in ListFields :
        \E j \in 1..Len(Deref(hp, o)[f]) : hp' = HeapSetItem(hp, o, f, j, FloatV(0))
    /\ UNCHANGED <<rc, pv, sd, sh, ov, pl>>

HeapNext ==
    HpConstruct \/ HpReplace \/ HpShrink \/ HpRoundTrip \/ HpToJson \/ HpSetAttr \/ HpSetItem

HeapInit == hp = EmptyHeap /\ rc = RcIdle /\ pv = PvIdle /\ sd = SdIdle /\ RestIdle

SpecHeap == HeapInit /\ [][HeapNext]_vars

---------------------------------------------------------------------------
(* Claims about the objects on the heap, checked under SpecHeap. *)

---------------------------------------------------------------------------
(* pca_seed_vertices, on vertices that lie on the x axis: verts[i] is       *)
(* (xs[i], 0, 0).  The principal axis of such a set is the x axis in one of *)
(* its two directions (the SVD routine picks the sign), and every           *)
(* projection is 0 when all vertices coincide.  The array's ndim and        *)
(* shape[1] are inputs of their own.                                        *)

Coords == {FloatV(c) : c \in 0..MaxCoord} \cup {NaN}

RECURSIVE SumNum(_)
SumNum(xs) == IF xs = <<>> THEN 0 ELSE Num(Head(xs)) + SumNum(Tail(xs))

HasNonFinite(xs) == \E n \in 1..Len(xs) : ~IsFinite(xs[n])

\* A float64 of the arrays: nan, or a number.
Key(n) == [nan |-> FALSE, v |-> n]
NanKey == [nan |-> TRUE, v |-> 0]

\* a < b on float64: False when either is nan.
KeyLess(a, b) == ~a.nan /\ ~b.nan /\ a.v < b.v

\* proj = X @ pc1 with X = v - v.mean(axis=0) and pc1 = sign * (1, 0, 0),
\* times the number of vertices; nan throughout when a coordinate is not finite.
Proj(xs, sign) ==
    [n \in 1..Len(xs) |->
        IF HasNonFinite(xs) THEN NanKey ELSE Key(sign * (Len(xs) * Num(xs[n]) - SumNum(xs)))]

\* np.argmin: the first nan if there is one, else the first minimum.
ArgMin(a) ==
    IF \E n \in 1..Len(a) : a[n].nan
    THEN CHOOSE n \in 1..Len(a) : a[n].nan /\ \A h \in 1..(n - 1) : ~a[h].nan
    ELSE CHOOSE n \in 1..Len(a) :
            (\A h \in 1..Len(a) : ~KeyLess(a[h], a[n])) /\ (\A h \in 1..(n - 1) : KeyLess(a[n], a[h]))

\* np.argmax: the first nan if there is one, else the first maximum.
ArgMax(a) ==
    IF \E n \in 1..Len(a) : a[n].nan
    THEN CHOOSE n \in 1..Len(a) : a[n].nan /\ \A h \in 1..(n - 1) : ~a[h].nan
    ELSE CHOOSE n \in 1..Len(a) :
            (\A h \in 1..Len(a) : ~KeyLess(a[n], a[h])) /\ (\A h \in 1..(n - 1) : KeyLess(a[h], a[n]))

\* d2 = np.sum((v - v[init]) ** 2, axis=1).
D2(xs, init) ==
    [n \in 1..Len(xs) |->
        IF ~IsFinite(xs[n]) \/ ~IsFinite(xs[init]) THEN NanKey
        ELSE Key((Num(xs[n]) - Num(xs[init])) * (Num(xs[n]) - Num(xs[init])))]

\* np.argsort(d2): an ascending order of the indices with the nans last.  The
\* default sort is not stable, so equal distances come in any order.
ArgSorts(d2) ==
    {perm \in Permutations(1..Len(d2)) :
        \A a \in 1..Len(d2), b \in 1..Len(d2) :
            a < b => ~KeyLess(d2[perm[b]], d2[perm[a]]) /\ (d2[perm[a]].nan => d2[perm[b]].nan)}

MaxOf(a, b) == IF a >= b THEN a ELSE b

\* The fallback loop: the first idx of nn that is not init, or second as it is.
Fallback(nn, init, second) ==
    IF \E n \in 1..Len(nn) : nn[n] # init
    THEN nn[CHOOSE n \in 1..Len(nn) : nn[n] # init /\ \A h \in 1..(n - 1) : nn[h] = init]
    ELSE second

\* The body of pca_seed_vertices after the SVD, with the order argsort
\* returned; vertex indices are 1-based here and 0-based in the result.
SeedPair(xs, k_nn, sign, order) ==
    LET proj == Proj(xs, sign)
        init == ArgMin(proj)
        m == IF MaxOf(k_nn, 3) <= Len(xs) THEN MaxOf(k_nn, 3) ELSE Len(xs)
        nn == SubSeq(order, 1, m)
        nn_proj == [n \in 1..m |-> proj[nn[n]]]
        second == nn[ArgMax(nn_proj)]
    IN  [kind |-> "pair", init |-> init - 1,
         second |-> (IF second = init THEN Fallback(nn, init, second) ELSE second) - 1,
         fallback |-> second = init]

NoSeed == [kind |-> "none", init |-> 0, second |-> 0, fallback |-> FALSE]
SeedRaise(kind) == [kind |-> kind, init |-> 0, second |-> 0, fallback |-> FALSE]

\* The arrays tried: ndim 1, 2 or 3, shape[1] 2 or 3, up to MaxVerts rows.
SdInit ==
    \E ndim \in 1..3, cols \in {2, 3}, xs \in SeqsUpTo(Coords, MaxVerts), k_nn \in 1..MaxK :
        sd = [pc |-> "start", ndim |-> ndim, cols |-> cols, xs |-> xs, k_nn |-> k_nn, out |-> NoSeed]

ShapeOk == sd.ndim = 2 /\ sd.cols = 3

\* require(verts.ndim == 2 and verts.shape[1] == 3, ...) raises ValueError.
SeedRejectShape ==
    /\ sd.pc = "start"
    /\ ~ShapeOk
    /\ sd' = [sd EXCEPT !.pc = "done", !.out = SeedRaise("ValueError")]
    /\ UNCHANGED <<rc, pv, hp, sh, ov, pl>>

\* np.linalg.svd raises LinAlgError on an empty array or, in the builds whose
\* LAPACK reports it, on nan input; in the builds where the SVD of an empty
\* array returns, vh[0] raises IndexError.
SeedSvdFails ==
    /\ sd.pc = "start"
    /\ ShapeOk
    /\ \/ /\ sd.xs = <<>>
          /\ \E kind \in {"LinAlgError", "IndexError"} :
                sd' = [sd EXCEPT !.pc = "done", !.out = SeedRaise(kind)]
       \/ /\ sd.xs # <<>>
          /\ HasNonFinite(sd.xs)
          /\ sd' = [sd EXCEPT !.pc = "done", !.out = SeedRaise("LinAlgError")]
    /\ UNCHANGED <<rc, pv, hp, sh, ov, pl>>

\* The SVD returns (with nan components on nan input, in the builds that do
\* not raise): the function returns init, second.
SeedSelect ==
    /\ sd.pc = "start"
    /\ ShapeOk
    /\ sd.xs # <<>>
    /\ \E sign \in {0 - 1, 1} :
        \E order \in ArgSorts(D2(sd.xs, ArgMin(Proj(sd.xs, sign)))) :
            sd' = [sd EXCEPT !.pc = "done", !.out = SeedPair(sd.xs, sd.k_nn, sign, order)]
    /\ UNCHANGED <<rc, pv, hp, sh, ov, pl>>

SeedNext == SeedRejectShape \/ SeedSvdFails \/ SeedSelect

SeedInit == SdInit /\ rc = RcIdle /\ pv = PvIdle /\ hp = HpIdle /\ RestIdle

SpecSeed == SeedInit /\ [][SeedNext]_vars

---------------------------------------------------------------------------
(* Claims about pca_seed_vertices, checked under SpecSeed. *)

\* C9 as stated: whenever a pair is returned, whatever the number of
\* vertices, the projections and k, init # second.
C9_SeedsDistinct == sd.out.kind = "pair" => sd.out.init # sd.out.second

\* What holds of the code: the seeds differ whenever there are two vertices
\* or more, and both are indices of vertices.
SeedsDistinctFromTwoVertices ==
    (sd.out.kind = "pair" /\ Len(sd.xs) >= 2) =>
        /\ sd.out.init # sd.out.second
        /\ sd.out.init \in 0..(Len(sd.xs) - 1)
        /\ sd.out.second \in 0..(Len(sd.xs) - 1)

\* C10 as stated: the selector fails with the invalid-geometry condition (the
\* ValueError of require) and returns no pair whenever the input has fewer
\* than 3 vertices, is not N x 3, or holds a non-finite coordinate.
C10_RejectsBadInput ==
    (sd.pc = "done" /\ (Len(sd.xs) < 3 \/ ~ShapeOk \/ HasNonFinite(sd.xs))) =>
        sd.out.kind = "ValueError"

\* What holds of the code: an array that is not N x 3 is rejected with the
\* ValueError of require, and nothing else is.
OnlyShapeRejected == sd.pc = "done" => (sd.out.kind = "ValueError" <=> ~ShapeOk)

---------------------------------------------------------------------------
(* The iteration count, checked under SpecParams. *)

\* x is an integer >= 0.
NonNegInt(x) == IsInt(x) /\ Num(x) >= 0

\* C13 as stated: every constructor call whose N_it is not a nonnegative
\* integer (negative, or a non-integer real such as 2.5) fails and yields no
\* object, and every object constructed has an integer N_it >= 0.
C13_IterationCount ==
    PvCalled =>
        /\ ~NonNegInt(PvArgs.N_it) => pv.out.obj = NoObject
        /\ pv.out.err = NoError => NonNegInt(pv.out.obj.N_it)

\* What holds of the code: a call whose N_it is not a finite real >= 0 fails,
\* and every object constructed has a finite real N_it >= 0.
IterationCountReal ==
    PvCalled =>
        /\ ~(IsReal(PvArgs.N_it) /\ IsFinite(PvArgs.N_it) /\ GeZero(PvArgs.N_it)) =>
              pv.out.obj = NoObject
        /\ pv.out.err = NoError =>
              IsReal(pv.out.obj.N_it) /\ IsFinite(pv.out.obj.N_it) /\ GeZero(pv.out.obj.N_it)

---------------------------------------------------------------------------
(* The classification of engine failures, checked under SpecRetry. *)

\* The message contains "domain", letter case ignored.
ContainsDomain(m) == Contains(Lower(m), <<"d", "o", "m", "a", "i", "n">>)

\* The step is a failed call of the engine.
EngineFailsStep == rc.pc = "Attempting" /\ rc'.pc # "Success"

\* A failed call is taken to the shrink exactly when its message contains
\* "domain"; any other failure ends the run with that failure itself.
ClassifiedByDomain ==
    EngineFailsStep =>
        /\ rc'.calls = rc.calls + 1
        /\ rc'.pc = "ShrinkRetry" <=> ContainsDomain(rc'.last_err.msg)
        /\ ~ContainsDomain(rc'.last_err.msg) =>
              (rc'.pc = "Failed" /\ rc'.raised = rc'.last_err /\ rc'.p = rc.p)

\* The object the shrink of this step asks the constructor for is accepted.
ShrinkOfStepAccepted == PostInit(Merged(rc.p, ShrinkChanges(rc.p, rc.shrink))) = NoError

\* C14 as stated: a failure is retryable if and only if its message contains
\* "domain" in any letter case; a failure without it ends the run, and a
\* failure with it is followed by a shrink and, while the budget lasts, by a
\* further attempt.
C14_DomainAlwaysRetried ==
    [][/\ ClassifiedByDomain
       /\ (rc.pc = "ShrinkRetry" /\ InUnitInterval(rc.shrink) /\ rc.i + 1 < rc.max_tries) =>
             rc'.pc = "Attempting"]_vars

\* C14 as amended: the same classification; a failure with "domain" in its
\* message is followed by the shrink, and by a further attempt with the
\* shrunk object while the budget lasts provided the constructor accepts the
\* shrunk object; when it rejects it the run ends with the constructor's error.
C14_DomainRetriedIfShrinkAccepted ==
    [][/\ ClassifiedByDomain
       /\ rc.pc = "ShrinkRetry" =>
             IF ShrinkOfStepAccepted
             THEN /\ rc'.p = Merged(rc.p, ShrinkChanges(rc.p, rc.shrink))
                  /\ rc'.pc = "Attempting" <=> rc.i + 1 < rc.max_tries
                  /\ rc'.pc # "Attempting" => rc'.raised = RetryExhausted(rc.last_err)
             ELSE /\ rc'.pc = "Failed"
                  /\ rc'.raised.kind \in {"ValueError", "TypeError"}]_vars

\* A failure whose message holds "domain" in mixed case, and nothing about
\* leaving the surface, was followed by a shrink and a further attempt.
C14_Witness ==
    /\ rc.pc = "Attempting"
    /\ rc.calls = 1
    /\ rc.hist[1].msg = MsgDomainName
    /\ rc.p # rc.params
    /\ rc.i = 1

---------------------------------------------------------------------------
(* The shrink that the constructor rejects, checked under SpecRetry. *)

\* The run has ended with an error of the constructor.
EndedWithConfigError == rc.pc = "Failed" /\ rc.raised.kind \in {"ValueError", "TypeError"}

\* C15: a shrink whose values the constructor rejects ends the run at once
\* with the constructor's error: the engine is not called again, no object
\* replaces the one of the failed attempt, and the error surfaced is neither
\* the RuntimeError of the exhausted budget nor the engine's failure; so it is
\* after every failed attempt, the last of the budget included.
C15_InvalidShrinkFatal ==
    /\ [](EndedWithConfigError =>
            /\ ~ENABLED RetryNext
            /\ rc.calls = Len(rc.hist)
            /\ ~rc.hist[rc.calls].ok
            /\ rc.calls = rc.i + 1
            /\ rc.raised # rc.last_err
            /\ rc.raised = ConfigExc(PostInit(Merged(rc.p, ShrinkChanges(rc.p, rc.shrink)))))
    /\ [][(rc.pc = "ShrinkRetry" /\ ~ShrinkOfStepAccepted) =>
            /\ rc'.pc = "Failed"
            /\ rc'.raised.kind \in {"ValueError", "TypeError"}
            /\ rc'.raised = ConfigExc(PostInit(Merged(rc.p, ShrinkChanges(rc.p, rc.shrink))))
            /\ rc'.calls = rc.calls
            /\ rc'.p = rc.p
            /\ rc'.i = rc.i]_vars

\* The shrink after the last attempt of a budget of two or more was rejected,
\* the shrinks before it having been accepted.
C15_Witness ==
    /\ EndedWithConfigError
    /\ InUnitInterval(rc.shrink)
    /\ rc.max_tries >= 2
    /\ rc.calls = rc.max_tries
    /\ rc.p # rc.params
    /\ rc.raised.kind = "ValueError"

---------------------------------------------------------------------------
(* The fields the shrink leaves alone, checked under SpecRetry. *)

\* The fields that are no argument of the replace(...) of the handler.
FrameFields ==
    {"meshfile", "init_node_id", "second_node_id", "N_it", "branch_angle", "w",
     "fascicles_angles", "save"}

\* C16: after any number of shrinks the current object, and the object
\* returned, have meshfile, init_node_id, second_node_id, N_it, branch_angle,
\* w, fascicles_angles and save as in the initial object, and the initial
\* object is as it was handed over at every step, the last included.
C16_ShrinkFrame ==
    /\ [](/\ rc.pc \in {"Attempting", "ShrinkRetry", "Success", "Failed"} =>
                \A f \in FrameFields : rc.p[f] = rc.params[f]
          /\ rc.pc = "Success" =>
                \A f \in FrameFields : rc.ret_p[f] = rc.params[f] /\ rc.ret_ft.params[f] = rc.params[f]
          /\ rc.params \in StartParams)
    /\ [][rc'.params = rc.params]_vars

\* A run that shrank twice, with fascicles, and has ended.
C16_Witness ==
    /\ rc.pc \in {"Success", "Failed"}
    /\ rc.i >= 2
    /\ Len(rc.params.fascicles_angles) >= 1
    /\ rc.p.length # rc.params.length
    /\ rc.p.fascicles_length # rc.params.fascicles_length
    /\ rc.p.fascicles_angles = rc.params.fascicles_angles

---------------------------------------------------------------------------
(* build_params and the diagonal check of main.  A diagonal is a float on   *)
(* the grid; the literals 0.25, 0.06, 0.01, 0.05 and 0.08 are hundredths.   *)

\* float(c * y) for a literal c whose double lies above (dev = 1), below
\* (dev = -1) or at (dev = 0) its decimal value: a product halfway between
\* two floats goes the way of the literal's error, and to even when dev = 0.
FMulLit(c, dev, y) ==
    LET a == IF Num(y) < 0 THEN 0 - Num(y) ELSE Num(y)
        n == Num(c) * a
        m == IF 2 * (n % 100) = 100 /\ dev # 0
             THEN (IF dev > 0 THEN (n \div 100) + 1 ELSE n \div 100)
             ELSE RoundHalfEven(n, 100)
    IN  FloatV(IF Num(y) < 0 THEN 0 - m ELSE m)

\* x / y for a float x and y > 0.
FDiv(x, y) == FloatV(RoundHalfEven(Num(x) * 100, Num(y)))

PyMin(a, b) == IF Num(b) < Num(a) THEN b ELSE a

\* max(a, b): the first argument unless the second is greater.
PyMax(a, b) == IF Num(b) > Num(a) THEN b ELSE a

\* The keyword arguments build_params calls the constructor with.
BuildKw(seeds, diag) ==
    LET init_length == FMulLit(FloatV(25), 0, diag)
        length == FMulLit(FloatV(6), 0 - 1, diag)
        l_segment == PyMax(FMulLit(FloatV(1), 1, diag), FDiv(length, FloatV(1200)))
    IN  [meshfile |-> StrV("mesh.obj"),
         init_node_id |-> IntV(seeds[1]),
         second_node_id |-> IntV(seeds[2]),
         init_length |-> init_length,
         N_it |-> IntV(20),
         length |-> length,
         branch_angle |-> FloatV(15),
         w |-> FloatV(10),
         l_segment |-> l_segment,
         fascicles_angles |-> <<FloatV(2), FloatV(3)>>,
         fascicles_length |-> <<FMulLit(FloatV(5), 1, diag), FMulLit(FloatV(8), 1, diag)>>]

\* The diagonals and seed pairs tried.
Diags == {FloatV(n) : n \in (0 - 2)..MaxDiag}
SeedPairs == (0..2) \X (0..2)

ShInit ==
    \E diag \in Diags, seeds \in SeedPairs :
        sh = [pc |-> "start", diag |-> diag, seeds |-> seeds, out |-> NoResult]

\* main: require(lv_diag > 0.0, "LV", "mesh diagonal is zero").
ShRequireDiag ==
    /\ sh.pc = "start"
    /\ sh' = IF GtZero(sh.diag)
             THEN [sh EXCEPT !.pc = "checked"]
             ELSE [sh EXCEPT !.pc = "rejected",
                             !.out = [err |-> Raise("ValueError", "diag"), obj |-> NoObject,
                                      warned |-> FALSE]]
    /\ UNCHANGED <<rc, pv, hp, sd, ov, pl>>

\* build_params(meshfile, seeds, diag), called by main after the check or by
\* another caller without it.
ShBuildParams ==
    /\ sh.pc \in {"start", "checked"}
    /\ sh' = [sh EXCEPT !.pc = "built",
                        !.out = [err |-> Construct(BuildKw(sh.seeds, sh.diag)).err,
                                 obj |-> Construct(BuildKw(sh.seeds, sh.diag)).obj,
                                 warned |-> FALSE]]
    /\ UNCHANGED <<rc, pv, hp, sd, ov, pl>>

ScaleNext == ShRequireDiag \/ ShBuildParams

ScaleInit == ShInit /\ rc = RcIdle /\ pv = PvIdle /\ hp = HpIdle /\ sd = SdIdle
             /\ ov = OvIdle /\ pl = PlIdle

SpecScale == ScaleInit /\ [][ScaleNext]_vars

---------------------------------------------------------------------------
(* Claims about build_params, checked under SpecScale. *)

\* The seed pair is valid: two different vertex indices.
ValidSeeds == sh.seeds[1] # sh.seeds[2]

\* v is the float nearest to old / 12.
IsTwelfth(v, old) ==
    /\ v.t = "float"
    /\ 2 * (12 * v.v - Num(old)) <= 12
    /\ 2 * (Num(old) - 12 * v.v) <= 12

\* p is the object of the heuristic for diagonal d: the fixed values, the
\* lengths the float products of d, l_segment the greater of 0.01 * d and
\* length / 12.
IsStarterFor(p, d) ==
    /\ IsProduct(p.init_length, d, FloatV(25))
    /\ IsProduct(p.length, d, FloatV(6))
    /\ IsProduct(p.l_segment, d, FloatV(1)) \/ IsTwelfth(p.l_segment, p.length)
    /\ 2 * (Num(d) - 100 * p.l_segment.v) <= 100
    /\ 2 * (Num(p.length) - 12 * p.l_segment.v) <= 12
    /\ p.N_it = IntV(20)
    /\ p.branch_angle = FloatV(15)
    /\ p.w = FloatV(10)
    /\ Len(p.fascicles_length) = 2
    /\ Len(p.fascicles_angles) = 2
    /\ IsProduct(p.fascicles_length[1], d, FloatV(5))
    /\ IsProduct(p.fascicles_length[2], d, FloatV(8))
    /\ p.init_node_id = IntV(sh.seeds[1])
    /\ p.second_node_id = IntV(sh.seeds[2])

\* A diagonal d <= 0 is rejected and yields no object.
NonPositiveDiagRejected ==
    (sh.pc \in {"built", "rejected"} /\ ~GtZero(sh.diag)) =>
        (sh.out.obj = NoObject /\ sh.out.err.kind = "ValueError")

\* C11 as stated: for every finite d > 0 and valid seed pair build_params
\* yields the object of the heuristic, which passes every check of the
\* constructor; d <= 0 is rejected and yields no object.
C11_ScaleAlwaysValid ==
    /\ (sh.pc = "built" /\ GtZero(sh.diag) /\ ValidSeeds) =>
          /\ sh.out.err = NoError
          /\ IsStarterFor(sh.out.obj, sh.diag)
          /\ PostInit(sh.out.obj) = NoError
    /\ NonPositiveDiagRejected

\* C11 as amended: the same for every d > 0 at which the float 0.01 * d is
\* not 0.0; at a smaller d > 0 a length of the heuristic is 0.0 and
\* build_params fails with the constructor's ValueError and yields no object.
C11_ScaleValidUnlessUnderflow ==
    /\ (sh.pc = "built" /\ GtZero(sh.diag) /\ ValidSeeds) =>
          IF 2 * Num(sh.diag) >= 100
          THEN /\ sh.out.err = NoError
               /\ IsStarterFor(sh.out.obj, sh.diag)
               /\ PostInit(sh.out.obj) = NoError
          ELSE /\ sh.out.err.kind = "ValueError"
               /\ sh.out.obj = NoObject
    /\ NonPositiveDiagRejected

\* An object built after main's check whose l_segment is 0.01 * d and whose
\* lengths are all different.
C11_Witness ==
    /\ sh.pc = "built"
    /\ sh.out.err = NoError
    /\ ValidSeeds
    /\ Num(sh.diag) >= 58
    /\ sh.out.obj.l_segment = FloatV(1)
    /\ sh.out.obj.length = FloatV(3)
    /\ sh.out.obj.init_length # sh.out.obj.length

---------------------------------------------------------------------------
(* validate_outputs.  An array is its ndim, its shape[0] (rows) and         *)
(* shape[1] (cols) and what its entries are: the kinds of float among the   *)
(* entries of nodes, the index values among the entries of edges; pmj is    *)
(* the 1-D array of terminal indices.                                       *)

\* The threshold of the two count checks.
MinViable == 10

InRangeInclusive(v, n) == 0 <= v /\ v <= n

\* v >= 0 and v < n, the two halves of an index check, on one entry.
InRange(v, n) == 0 <= v /\ v < n

\* The messages of the checks, in the order they are made.
OutputChecks ==
    <<"nodes shape invalid", "edges shape invalid", "too few nodes", "too few edges",
      "PMJs empty", "NaN/Inf in nodes", "edge index out of range", "PMJ index out of range">>

\* validate_outputs: the ValueError of the first require that fails, or NoError.
ValidateOutputs(nodes, edges, pmj) ==
    LET bad == <<~(nodes.ndim = 2 /\ nodes.cols = 3),
                 ~(edges.ndim = 2 /\ edges.cols = 2),
                 ~(nodes.rows > MinViable),
                 ~(edges.rows > MinViable),
                 ~(Len(pmj) > 0),
                 ~(\A k \in nodes.kinds : k = "finite"),
                 ~(\A v \in edges.vals : InRange(v, nodes.rows)),
                 ~(\A j \in 1..Len(pmj) : InRange(pmj[j], nodes.rows))>>
    IN  IF FirstBad(bad) = 0 THEN NoError ELSE Raise("ValueError", OutputChecks[FirstBad(bad)])

\* The row counts and index values tried: around the threshold and around
\* the node count.
NodeRows == {0, MinViable, MinViable + 1, MaxRows}
EdgeRows == {0, MinViable, MinViable + 1, MaxRows - 1}
IdxVals == {0 - 1, 0, MaxRows - 1, MaxRows}

\* The node arrays: an empty array has no entries.
NodeArrays ==
    {[ndim |-> nd, cols |-> c, rows |-> n, kinds |-> k] :
        nd \in {1, 2}, c \in {2, 3}, n \in NodeRows,
        k \in {{"finite"}, {"finite", "nan"}, {"finite", "inf"}}}
    \cup {[ndim |-> nd, cols |-> c, rows |-> 0, kinds |-> {}] : nd \in {1, 2}, c \in {2, 3}}

EdgeArrays ==
    {[ndim |-> nd, cols |-> c, rows |-> m, vals |-> vs] :
        nd \in {1, 2}, c \in {2, 3}, m \in EdgeRows \ {0},
        vs \in {S \in SUBSET IdxVals : Cardinality(S) \in {1, 2}}}
    \cup {[ndim |-> nd, cols |-> c, rows |-> 0, vals |-> {}] : nd \in {1, 2}, c \in {2, 3}}

OvInit ==
    \E nodes \in {a \in NodeArrays : a.rows = 0 => a.kinds = {}},
       edges \in EdgeArrays, pmj \in SeqsUpTo(IdxVals, 2) :
        ov = [pc |-> "start", nodes |-> nodes, edges |-> edges, pmj |-> pmj, out |-> NoError]

\* validate_outputs(nodes, edges, pmj, label).
OvValidate ==
    /\ ov.pc = "start"
    /\ ov' = [ov EXCEPT !.pc = "done", !.out = ValidateOutputs(ov.nodes, ov.edges, ov.pmj)]
    /\ UNCHANGED <<rc, pv, hp, sd, sh, pl>>

OutputNext == OvValidate

OutputInit == OvInit /\ rc = RcIdle /\ pv = PvIdle /\ hp = HpIdle /\ sd = SdIdle
              /\ sh = ShIdle /\ pl = PlIdle

SpecOutput == OutputInit /\ [][OutputNext]_vars

---------------------------------------------------------------------------
(* Claims about validate_outputs, checked under SpecOutput. *)

\* The conditions of acceptance, as the claim lists them.
NodesOk == ov.nodes.ndim = 2 /\ ov.nodes.cols = 3 /\ ov.nodes.kinds \subseteq {"finite"}
EdgesShapeOk == ov.edges.ndim = 2 /\ ov.edges.cols = 2
TerminalsNonEmpty == ov.pmj # <<>>
EdgeIndicesOk == \A v \in ov.edges.vals : v >= 0 /\ v < ov.nodes.rows
TerminalIndicesOk == \A j \in 1..Len(ov.pmj) : ov.pmj[j] >= 0 /\ ov.pmj[j] < ov.nodes.rows
CountsOk == ov.nodes.rows > 10 /\ ov.edges.rows > 10

\* The check a message names is one the input violates.
NamedCheckViolated(check) ==
    CASE check = "nodes shape invalid" -> ~(ov.nodes.ndim = 2 /\ ov.nodes.cols = 3)
      [] check = "edges shape invalid" -> ~EdgesShapeOk
      [] check = "too few nodes" -> ~(ov.nodes.rows > 10)
      [] check = "too few edges" -> ~(ov.edges.rows > 10)
      [] check = "PMJs empty" -> ~TerminalsNonEmpty
      [] check = "NaN/Inf in nodes" -> ~(ov.nodes.kinds \subseteq {"finite"})
      [] check = "edge index out of range" -> ~EdgeIndicesOk
      [] check = "PMJ index out of range" -> ~TerminalIndicesOk
      [] OTHER -> FALSE

\* C12: validate_outputs passes if and only if nodes is N x 3 and finite,
\* edges is M x 2, the terminals are not empty, every edge and terminal index
\* is in [0, N) and N and M both exceed 10; otherwise it fails with a
\* ValueError naming a check the input violates, and 15 nodes with a terminal
\* index of 15, all else being in order, fails naming the terminal-index check.
C12_OutputValidator ==
    ov.pc = "done" =>
        /\ ov.out = NoError <=>
              (NodesOk /\ EdgesShapeOk /\ TerminalsNonEmpty /\ EdgeIndicesOk
               /\ TerminalIndicesOk /\ CountsOk)
        /\ ov.out # NoError =>
              (ov.out.kind = "ValueError" /\ NamedCheckViolated(ov.out.check))
        /\ (NodesOk /\ EdgesShapeOk /\ CountsOk /\ EdgeIndicesOk /\ ov.nodes.rows = 15
            /\ \E j \in 1..Len(ov.pmj) : ov.pmj[j] = 15) =>
              ov.out = Raise("ValueError", "PMJ index out of range")

\* 15 nodes, 14 edges, 2 terminals in range, everything finite: passes.
C12_Witness ==
    /\ ov.pc = "done"
    /\ ov.out = NoError
    /\ ov.nodes.rows = 15
    /\ ov.edges.rows = 14
    /\ Len(ov.pmj) = 2
    /\ ov.pmj[1] # ov.pmj[2]

---------------------------------------------------------------------------
(* A run of main: its steps in order, each of which the outside world lets  *)
(* succeed or fail.  failures holds the steps that failed, warnings those   *)
(* whose failure was logged as a warning.                                   *)

\* The steps of main up to the saving of the trees, none of them in a try.
MainSteps ==
    <<"config", "load_meshes", "diagonal", "seed_selection", "validate_seeds",
      "build_params", "grow_with_retry", "validate_outputs", "save_trees">>

\* The step after step number n of MainSteps.
StepAfter(n) == IF n < Len(MainSteps) THEN MainSteps[n + 1] ELSE "export_terminals"

PlStart(show, screenshot) ==
    [pc |-> MainSteps[1], status |-> "running", show |-> show, screenshot |-> screenshot,
     failures |-> {}, warnings |-> {}, pmj_paths |-> FALSE]

PlInit == \E show \in BOOLEAN, screenshot \in BOOLEAN : pl = PlStart(show, screenshot)

\* An exception that leaves main: the run has failed at this step.
PlFailed(step) == [pl EXCEPT !.status = "failed", !.failures = pl.failures \cup {step}]

\* except Exception as e: LOGGER.warning(...); the run goes on at next.
PlWarned(step, next) ==
    [pl EXCEPT !.pc = next, !.failures = pl.failures \cup {step},
               !.warnings = pl.warnings \cup {step}]

\* A statement of main outside every try: it returns, or its exception
\* leaves main.
PlMainStep ==
    /\ pl.status = "running"
    /\ \E n \in 1..Len(MainSteps) :
        /\ pl.pc = MainSteps[n]
        /\ \E ok \in BOOLEAN :
            pl' = IF ok THEN [pl EXCEPT !.pc = StepAfter(n)] ELSE PlFailed(MainSteps[n])
    /\ UNCHANGED <<rc, pv, hp, sd, sh, ov>>

PlExportTerminalsFatal ==
    /\ pl.status = "running"
    /\ pl.pc = "export_terminals"
    /\ \E ok \in BOOLEAN :
        pl' = IF ok THEN [pl EXCEPT !.pc = "visualize", !.pmj_paths = TRUE]
              ELSE PlFailed("export_terminals")
    /\ UNCHANGED <<rc, pv, hp, sd, sh, ov>>

\* try: save_pmjs for LV and RV ... except Exception: warning.
PlExportTerminals ==
    /\ pl.status = "running"
    /\ pl.pc = "export_terminals"
    /\ \E ok \in BOOLEAN :
        pl' = IF ok THEN [pl EXCEPT !.pc = "visualize", !.pmj_paths = TRUE]
              ELSE PlWarned("export_terminals", "visualize")
    /\ UNCHANGED <<rc, pv, hp, sd, sh, ov>>

\* visualize_results: nothing to do without --show and --screenshot;
\* otherwise import pyvista, whose failure is a warning and a return.
PlVisualizeImport ==
    /\ pl.status = "running"
    /\ pl.pc = "visualize"
    /\ IF ~pl.show /\ ~pl.screenshot
       THEN pl' = [pl EXCEPT !.pc = "finish"]
       ELSE \E ok \in BOOLEAN :
               pl' = IF ok THEN [pl EXCEPT !.pc = "render"]
                     ELSE PlWarned("import_pyvista", "finish")
    /\ UNCHANGED <<rc, pv, hp, sd, sh, ov>>

\* The plotter, the surfaces, the trees, the legend and, for a screenshot,
\* the mkdir of its directory: outside every try.
PlRender ==
    /\ pl.status = "running"
    /\ pl.pc = "render"
    /\ \E ok \in BOOLEAN :
        pl' = IF ok THEN [pl EXCEPT !.pc = "show"] ELSE PlFailed("render")
    /\ UNCHANGED <<rc, pv, hp, sd, sh, ov>>

\* With a screenshot path: try plotter.show(screenshot=...) except warning;
\* without one (so with --show): plotter.show() outside every try.
PlShow ==
    /\ pl.status = "running"
    /\ pl.pc = "show"
    /\ \E ok \in BOOLEAN :
        pl' = IF ok THEN [pl EXCEPT !.pc = "finish"]
              ELSE IF pl.screenshot THEN PlWarned("screenshot", "finish")
              ELSE PlFailed("interactive_show")
    /\ UNCHANGED <<rc, pv, hp, sd, sh, ov>>

\* The last log lines of main: the run is complete.
PlFinish ==
    /\ pl.status = "running"
    /\ pl.pc = "finish"
    /\ pl' = [pl EXCEPT !.status = "complete", !.pc = "done"]
    /\ UNCHANGED <<rc, pv, hp, sd, sh, ov>>

PipelineNext ==
    PlMainStep \/ PlExportTerminals \/ PlVisualizeImport \/ PlRender \/ PlShow \/ PlFinish

PipelineInit == PlInit /\ rc = RcIdle /\ pv = PvIdle /\ hp = HpIdle /\ sd = SdIdle
                /\ sh = ShIdle /\ ov = OvIdle

SpecPipeline == PipelineInit /\ [][PipelineNext]_vars

---------------------------------------------------------------------------
(* Claims about the run of main, checked under SpecPipeline. *)

\* C17 as stated: the terminal-points export is the only step whose failure
\* becomes a warning with the run going on; the failure of any other step,
\* visualization included, ends the run as failed.
C17_OnlyExportDowngraded ==
    /\ pl.warnings \subseteq {"export_terminals"}
    /\ (pl.failures \ {"export_terminals"}) # {} => pl.status = "failed"

\* The steps whose failure is logged as a warning.
Downgraded == {"export_terminals", "import_pyvista", "screenshot"}

\* C17 as amended: the failure of the terminal-points export, of the import
\* of PyVista and of the screenshot rendering is turned into a warning and
\* the run goes on to completion; the failure of any other step, the rest of
\* the visualization included, is not swallowed and ends the run as failed.
C17_ThreeDowngradePoints ==
    /\ [](/\ pl.warnings = pl.failures \cap Downgraded
          /\ (pl.failures \ Downgraded) # {} <=> pl.status = "failed"
          /\ pl.status = "failed" => ~ENABLED PipelineNext
          /\ pl.status = "complete" => pl.failures \subseteq Downgraded
          /\ "export_terminals" \in pl.failures => ~pl.pmj_paths)
    /\ [][("export_terminals" \in pl'.failures /\ "export_terminals" \notin pl.failures) =>
            (pl'.status = "running" /\ pl'.pc = "visualize")]_vars
    /\ [][(pl'.failures # pl.failures /\ pl'.failures \subseteq Downgraded) =>
            (pl'.status = "running" /\ pl'.pc \in {"visualize", "finish"})]_vars

\* A run in which the export of the terminal points failed and which went
\* on through the visualization to completion.
C17_Witness ==
    /\ pl.status = "complete"
    /\ pl.failures = {"export_terminals"}
    /\ pl.warnings = {"export_terminals"}
    /\ pl.show

===========================================================================
